---- MODULE Spec2Model ----
(***************************************************************************)
(* Retrieval-and-ranking pipeline of What-2-Watch: the in-memory           *)
(* VectorStore (internal/embeddings/embeddings.go), the judge adapter      *)
(* RerankByVibe (internal/llm/llm.go) and VibeSearchService                *)
(* (internal/services/scraper.go).  Similarities are fixed-point integers  *)
(* in thousandths.                                                         *)
(*                                                                         *)
(*   Spec       Search and GetSimilarToMedia, one request in flight, the   *)
(*              store changed between requests                             *)
(*   SpecIndex  the VectorStore methods called directly                    *)
(*   SpecRace   VectorStore methods entered by concurrent goroutines       *)
(*   SpecGems   the media table and GetHiddenGems                          *)
(*   SpecJudge  RerankByVibe called directly                               *)
(*   SpecSeen   requests over a seeded database as seen_media changes      *)
(*   SpecScraper  RedditScraper Start, Stop and its workers                *)
(*   SpecMentions processMentions over the threads of a listing            *)
(*   SpecIngest concurrent IngestMedia and RefreshEmbedding calls          *)
(***************************************************************************)
EXTENDS Integers, Sequences, FiniteSets, TLC

\* ------------------------------------------------------------------ bounds
\* Media ids known to the store.
Ids == {"X", "Y", "Z"}

\* Embedding vectors the provider produces for vibe profiles.
Vecs == {<<1, 0>>, <<0, 1>>, <<7, 7>>}

\* Embedding vectors the provider produces for query texts.
QueryVecs == {<<1, 0>>}

\* Values a caller passes as SearchConfig.TopK / SearchConfig.FinalResults.
TopKInputs == {0, 2}
FinalResultsInputs == {0, 1, 2}

\* Longest "rankings" array the language model answers with.
MaxVerdicts == 2

\* Rank numbers the language model writes into a ranking.
Ranks == {1, 2}

\* Vectors handed to the index directly, among them a zero vector and one of
\* another length.
IndexVecs == {<<1, 0>>, <<0, 1>>, <<7, 7>>, <<0, 0>>, <<1>>}

\* Query vectors handed to the index directly.
IndexQueries == {<<1, 0>>, <<0, 1>>, <<0, 0>>}

\* Largest topK handed to the index directly.
MaxTopK == 3

\* Candidate ids handed to the judge directly, and the longest "rankings"
\* array it answers with there.
JudgeIds == {"W", "X", "Y", "Z"}
MaxJudgeVerdicts == 4

\* Threads the subreddit listing holds, and the most titles one thread
\* mentions.
Threads == {"t1", "t2"}
MaxMentions == 2

\* Concurrent callers of IngestMedia and RefreshEmbedding, the titles they
\* name and the embeddings the provider can return.
Tasks == {"a", "b"}
IngestIds == {"X", "Y"}
IngestVecs == {<<1, 0>>, <<0, 1>>}
NoTask == [at |-> "idle"]

\* Most Start calls that launch a worker.
MaxStarts == 3

\* Values a caller passes as the limit of GetSimilarToMedia.
SimilarLimits == {0, 1, 2, 10}

\* Values a caller passes as the limit of GetHiddenGems.
GemLimits == {1, 2, 10}

\* quality_score and popularity_score are kept in tenths.  Scores a media row
\* is created with, amounts a mention adds to quality_score, and the largest
\* quality_score followed.
QualityInputs == {0, 4, 9}
PopularityInputs == {0, 3, 5, 9}
Boosts == {5}
MaxQuality == 9

\* Ids and vectors written and scanned by concurrent requests.
RaceIds == {"X", "Y"}
RaceVecs == {<<1, 0>>, <<0, 1>>}

\* Goroutines (one per HTTP request) inside VectorStore methods at one time.
Goroutines == {"g1", "g2"}

\* ------------------------------------------------------- program constants
DefaultTopK == 20
DefaultFinalResults == 10
VibeTopK == 15
VibeFinalResults == 5
FallbackVerdicts == 3

\* -------------------------------------------------------------------- state
VARIABLES
    vectors,           \* VectorStore.vectors: media id -> embedding
    seen,              \* seen_media rows of the requesting user (media ids)
    llmClient,         \* VibeSearchService.llmClient # nil
    pc,                \* position of the request inside Search
    config,            \* SearchConfig after defaults
    queryEmbedding,    \* Search: queryEmbedding
    seenIDs,           \* Search: seenIDs
    candidates,        \* Search: candidates
    rerankCandidates,  \* Search: rerankCandidates
    reranked,          \* Search: (reranked, err) of RerankByVibe
    result,            \* (SearchResult, error) handed to the caller
    calls,             \* collaborators invoked by this request
    faults,            \* collaborator calls of this request that failed
    unresolvedIDs,     \* candidates whose GetMedia gave an error or no record
    ixCall,            \* the VectorStore method called last, with its return
    similar,           \* the GetSimilarToMedia call in flight, with its return
    media,             \* media rows: id -> quality_score, popularity_score
    gems,              \* the GetHiddenGems call made last, with its return
    goroutines,        \* where each goroutine stands inside a VectorStore method
    judgeCall,         \* the RerankByVibe call made last, with its return
    scraper,           \* RedditScraper: running, stopCh, and its worker goroutines
    mentions,          \* reddit_mentions rows: thread_id, media_id, quality_boost
    embeddings,        \* embeddings table: media_id -> persisted embedding
    tasks              \* IngestMedia / RefreshEmbedding calls in flight

vars == <<vectors, seen, llmClient, pc, config, queryEmbedding, seenIDs,
          candidates, rerankCandidates, reranked, result, calls, faults,
          unresolvedIDs, ixCall, similar, media, gems, goroutines, judgeCall, scraper, mentions, embeddings, tasks>>

\* State of the judge, scraper and ingest models.
ext == <<judgeCall, scraper, mentions, embeddings, tasks>>

\* State no step of Search and no seen-list operation touches.
aux == <<ixCall, similar, media, gems, goroutines, ext>>

store == <<vectors, seen, llmClient>>

NoVector == <<>>
NoConfig == [TopK |-> 0, FinalResults |-> 0, UseReranking |-> FALSE]
NoJudge == [called |-> FALSE, err |-> FALSE, results |-> <<>>]
NoResult == [kind |-> "none"]
NoCall == [op |-> "none"]

\* ------------------------------------------------------------ pure helpers
Min(a, b) == IF a < b THEN a ELSE b

RECURSIVE Sum(_, _)
Sum(f, n) == IF n = 0 THEN 0 ELSE f[n] + Sum(f, n - 1)

\* Largest r in lo..hi with r * r <= n.
RECURSIVE ISqrtIn(_, _, _)
ISqrtIn(n, lo, hi) ==
    IF lo >= hi THEN lo
    ELSE LET mid == (lo + hi + 1) \div 2
         IN IF mid * mid <= n THEN ISqrtIn(n, mid, hi) ELSE ISqrtIn(n, lo, mid - 1)

\* math.Sqrt on a value in 0..10^6, rounded down.
ISqrt(n) == ISqrtIn(n, 0, 1000)

\* num / den in millionths, rounded down, by long division so that no
\* intermediate value leaves 32 bits.
Millionths(num, den) ==
    ((num * 1000) \div den) * 1000 + (((num * 1000) % den) * 1000) \div den

Dot(a, b) == Sum([i \in 1..Len(a) |-> a[i] * b[i]], Len(a))

\* Faulty variant: vectors of different length are compared over their common
\* prefix.
CosineSimilarityCommonPrefix(a, b) ==
    LET n == Min(Len(a), Len(b))
        pa == SubSeq(a, 1, n)
        pb == SubSeq(b, 1, n)
        dotProduct == Dot(pa, pb)
        normA == Dot(pa, pa)
        normB == Dot(pb, pb)
    IN IF normA = 0 \/ normB = 0 THEN 0
       ELSE LET q == ISqrt(Millionths(dotProduct * dotProduct, normA * normB))
            IN IF dotProduct < 0 THEN 0 - q ELSE q

\* embeddings.go CosineSimilarity, in thousandths.
CosineSimilarity(a, b) ==
    IF Len(a) # Len(b) THEN 0
    ELSE LET dotProduct == Dot(a, b)
             normA == Dot(a, a)
             normB == Dot(b, b)
         IN IF normA = 0 \/ normB = 0 THEN 0
            ELSE LET q == ISqrt(Millionths(dotProduct * dotProduct, normA * normB))
                 IN IF dotProduct < 0 THEN 0 - q ELSE q

RECURSIVE Perms(_)
Perms(S) ==
    IF S = {} THEN {<<>>}
    ELSE UNION {{<<x>> \o p : p \in Perms(S \ {x})} : x \in S}

\* Faulty variant: the comparator is Similarity <.
SortBySimilarityAsc(S) ==
    {p \in Perms(S) :
        \A i, j \in 1..Len(p) : i < j => ~(p[j].Similarity < p[i].Similarity)}

\* Every order sort.Slice may leave: the comparator is Similarity >, the
\* slice is filled in map-iteration order and the sort is not stable.
SortBySimilarityDesc(S) ==
    {p \in Perms(S) :
        \A i, j \in 1..Len(p) : i < j => ~(p[j].Similarity > p[i].Similarity)}

Truncate(s, n) == IF Len(s) > n THEN SubSeq(s, 1, n) ELSE s

\* Faulty variant: the excludeIDs test is left out of the scan.
VectorStoreSearchNoExclude(vs, query, topK, excludeIDs) ==
    IF DOMAIN vs = {} THEN {<<>>}
    ELSE {Truncate(p, topK) :
            p \in SortBySimilarityDesc(
                {[MediaID |-> id, Similarity |-> CosineSimilarity(query, vs[id])] :
                    id \in DOMAIN vs})}

\* embeddings.go VectorStore.Search: the set of slices one call may return.
VectorStoreSearch(vs, query, topK, excludeIDs) ==
    IF DOMAIN vs = {} THEN {<<>>}
    ELSE {Truncate(p, topK) :
            p \in SortBySimilarityDesc(
                {[MediaID |-> id, Similarity |-> CosineSimilarity(query, vs[id])] :
                    id \in (DOMAIN vs) \ excludeIDs})}

\* ------------------------------------------------------------ judge adapter
\* A ranking as parsed from the language model's answer: any id, any rank.
Verdicts ==
    [MediaID : Ids, Rank : Ranks, Explanation : {"judge"}]

SeqsUpTo(S, n) == UNION {[1..k -> S] : k \in 0..n}

\* llm.go RerankByVibe, line 231: "Matches your vibe based on: " followed by
\* the VibeProfile of the media.
BasedOn(id) ==
    CASE id = "W" -> "based-on: vibe of W"
      [] id = "X" -> "based-on: vibe of X"
      [] id = "Y" -> "based-on: vibe of Y"
      [] id = "Z" -> "based-on: vibe of Z"

\* Faulty variant: the loop is not cut after three candidates.
ParseFallbackUncut(cands) ==
    [i \in 1..Len(cands) |->
        [MediaID |-> cands[i].Media.ID, Rank |-> i,
         Explanation |-> BasedOn(cands[i].Media.ID)]]

\* llm.go RerankByVibe, lines 222-234: the answer did not parse.
ParseFallback(cands) ==
    [i \in 1..Min(FallbackVerdicts, Len(cands)) |->
        [MediaID |-> cands[i].Media.ID, Rank |-> i,
         Explanation |-> BasedOn(cands[i].Media.ID)]]

\* llm.go RerankByVibe, lines 201-246: what the call returns for one outcome
\* of c.complete: an error, text that does not parse, or parsed rankings.
RerankByVibeOn(cands, answer) ==
    IF Len(cands) = 0 THEN [called |-> TRUE, err |-> FALSE, results |-> <<>>]
    ELSE CASE answer.kind = "error" ->
                [called |-> TRUE, err |-> TRUE, results |-> <<>>]
           [] answer.kind = "unparsable" ->
                [called |-> TRUE, err |-> FALSE, results |-> ParseFallback(cands)]
           [] answer.kind = "parsed" ->
                [called |-> TRUE, err |-> FALSE, results |-> answer.rankings]

\* Outcomes of c.complete with rankings drawn from the set R.
Answers(R) ==
    {[kind |-> "error"], [kind |-> "unparsable"]}
        \cup {[kind |-> "parsed", rankings |-> r] : r \in R}

\* llm.go RerankByVibe: every (results, err) one call may return.
RerankByVibe(cands) ==
    {RerankByVibeOn(cands, answer) : answer \in Answers(SeqsUpTo(Verdicts, MaxVerdicts))}

\* ------------------------------------------------------ Search: assembling
MediaIDs(rc) == {rc[i].Media.ID : i \in 1..Len(rc)}

\* scraper.go Search, lines 648-651: the last candidate stored under an id.
MediaMap(rc, id) ==
    rc[CHOOSE i \in 1..Len(rc) :
            /\ rc[i].Media.ID = id
            /\ \A j \in 1..Len(rc) : rc[j].Media.ID = id => j <= i]

\* Faulty variant: the score is read from the candidate at the verdict's position,
\* not from the candidate the verdict names.
RECURSIVE FromVerdictsScoreByPosition(_, _)
FromVerdictsScoreByPosition(rr, rc) ==
    IF rr = <<>> THEN <<>>
    ELSE LET r == rr[Len(rr)]
             before == FromVerdictsScoreByPosition(SubSeq(rr, 1, Len(rr) - 1), rc)
         IN IF r.MediaID \in MediaIDs(rc)
            THEN Append(before,
                        [Media |-> MediaMap(rc, r.MediaID).Media,
                         VibeScore |-> rc[Min(Len(before) + 1, Len(rc))].VibeScore,
                         Explanation |-> r.Explanation,
                         Rank |-> r.Rank])
            ELSE before

\* scraper.go Search, lines 653-662: one recommendation per resolvable verdict.
RECURSIVE FromVerdicts(_, _)
FromVerdicts(rr, rc) ==
    IF rr = <<>> THEN <<>>
    ELSE LET r == rr[Len(rr)]
             before == FromVerdicts(SubSeq(rr, 1, Len(rr) - 1), rc)
         IN IF r.MediaID \in MediaIDs(rc)
            THEN Append(before,
                        [Media |-> MediaMap(rc, r.MediaID).Media,
                         VibeScore |-> MediaMap(rc, r.MediaID).VibeScore,
                         Explanation |-> r.Explanation,
                         Rank |-> r.Rank])
            ELSE before

\* Faulty variant: a filled entry takes the loop index as its rank.
RECURSIVE FillLoopRankByIndex(_, _, _, _, _)
FillLoopRankByIndex(recs, rc, i, rankedIDs, finalResults) ==
    IF i > Len(rc) \/ Len(recs) >= finalResults THEN recs
    ELSE IF rc[i].Media.ID \notin rankedIDs
         THEN FillLoopRankByIndex(Append(recs,
                                         [Media |-> rc[i].Media,
                                          VibeScore |-> rc[i].VibeScore,
                                          Explanation |-> "similar-vibe",
                                          Rank |-> i]),
                                  rc, i + 1, rankedIDs, finalResults)
         ELSE FillLoopRankByIndex(recs, rc, i + 1, rankedIDs, finalResults)

\* scraper.go Search, lines 671-683: the loop over rerankCandidates from
\* position i on, appending to recs.
RECURSIVE FillLoop(_, _, _, _, _)
FillLoop(recs, rc, i, rankedIDs, finalResults) ==
    IF i > Len(rc) \/ Len(recs) >= finalResults THEN recs
    ELSE IF rc[i].Media.ID \notin rankedIDs
         THEN FillLoop(Append(recs,
                              [Media |-> rc[i].Media,
                               VibeScore |-> rc[i].VibeScore,
                               Explanation |-> "similar-vibe",
                               Rank |-> Len(recs) + 1]),
                       rc, i + 1, rankedIDs, finalResults)
         ELSE FillLoop(recs, rc, i + 1, rankedIDs, finalResults)

\* Faulty variant: the fill is decided by the number of verdicts, not by the number
\* of recommendations built from them.
JudgedRankingCountingVerdicts(rr, rc, finalResults) ==
    LET recs == FromVerdicts(rr, rc)
    IN IF Len(rr) < finalResults
       THEN FillLoop(recs, rc, 1,
                     {recs[k].Media.ID : k \in 1..Len(recs)}, finalResults)
       ELSE recs

\* scraper.go Search, lines 646-685: judge answered without error.
JudgedRanking(rr, rc, finalResults) ==
    LET recs == FromVerdicts(rr, rc)
    IN IF Len(recs) < finalResults
       THEN FillLoop(recs, rc, 1,
                     {recs[k].Media.ID : k \in 1..Len(recs)}, finalResults)
       ELSE recs

\* Faulty variant: the loop stops one entry late (i > finalResults).
PositionalRankingOffByOne(rc, finalResults, explanation) ==
    [i \in 1..Min(Len(rc), finalResults + 1) |->
        [Media |-> rc[i].Media,
         VibeScore |-> rc[i].VibeScore,
         Explanation |-> explanation,
         Rank |-> i]]

\* scraper.go Search, lines 635-645 and 688-698: similarity order, cut at
\* finalResults, rank by position.
PositionalRanking(rc, finalResults, explanation) ==
    [i \in 1..Min(Len(rc), finalResults) |->
        [Media |-> rc[i].Media,
         VibeScore |-> rc[i].VibeScore,
         Explanation |-> explanation,
         Rank |-> i]]

\* scraper.go Search, lines 630-699: the recommendations for a judge outcome.
Recommend(judge, rc, finalResults) ==
    IF judge.called
    THEN IF judge.err
         THEN PositionalRanking(rc, finalResults, "vibe-match-based-on")
         ELSE JudgedRanking(judge.results, rc, finalResults)
    ELSE PositionalRanking(rc, finalResults, "vibe-match")

\* scraper.go Search, lines 614-625: candidates whose record resolves.
RECURSIVE Hydrate(_, _)
Hydrate(cands, unresolved) ==
    IF cands = <<>> THEN <<>>
    ELSE LET c == cands[Len(cands)]
             before == Hydrate(SubSeq(cands, 1, Len(cands) - 1), unresolved)
         IN IF c.MediaID \in unresolved THEN before
            ELSE Append(before, [Media |-> [ID |-> c.MediaID],
                                 VibeScore |-> c.Similarity])

\* ------------------------------------------------------------------- Init
Init ==
    /\ vectors = [id \in {} |-> NoVector]
    /\ seen = {}
    /\ llmClient \in BOOLEAN
    /\ pc = "idle"
    /\ config = NoConfig
    /\ queryEmbedding = NoVector
    /\ seenIDs = {}
    /\ candidates = <<>>
    /\ rerankCandidates = <<>>
    /\ reranked = NoJudge
    /\ result = NoResult
    /\ calls = {}
    /\ faults = {}
    /\ unresolvedIDs = {}
    /\ ixCall = NoCall
    /\ similar = NoCall
    /\ media = [id \in {} |-> NoCall]
    /\ gems = NoCall
    /\ goroutines = [g \in Goroutines |-> [at |-> "idle"]]
    /\ judgeCall = NoCall
    /\ scraper = [running |-> FALSE, stopCh |-> 0, closed |-> {}, workers |-> <<>>]
    /\ mentions = {}
    /\ embeddings = [id \in {} |-> NoVector]
    /\ tasks = [t \in Tasks |-> NoTask]

request == <<pc, config, queryEmbedding, seenIDs, candidates,
             rerankCandidates, reranked, result, calls, faults, unresolvedIDs>>

\* ----------------------------------------------------- store operations
\* Faulty variant: an id already stored keeps its first vector.
VectorStoreAddKeepFirst(vs, id, v) ==
    [i \in (DOMAIN vs) \cup {id} |-> IF i \in DOMAIN vs THEN vs[i] ELSE v]

\* embeddings.go VectorStore.Add: the map after vs.vectors[mediaID] = embedding.
VectorStoreAdd(vs, id, v) ==
    [i \in (DOMAIN vs) \cup {id} |-> IF i = id THEN v ELSE vs[i]]

\* embeddings.go VectorStore.Remove: the map after delete(vs.vectors, mediaID).
VectorStoreRemove(vs, id) ==
    [i \in (DOMAIN vs) \ {id} |-> vs[i]]

\* embeddings.go VectorStore.Size.
VectorStoreSize(vs) == Cardinality(DOMAIN vs)

\* embeddings.go VectorStore.Add.
Add ==
    /\ pc = "idle"
    /\ \E id \in Ids, v \in Vecs :
          vectors' = VectorStoreAdd(vectors, id, v)
    /\ UNCHANGED <<seen, llmClient, request>>
    /\ UNCHANGED aux

\* embeddings.go VectorStore.Remove.
Remove ==
    /\ pc = "idle"
    /\ \E id \in Ids :
          vectors' = VectorStoreRemove(vectors, id)
    /\ UNCHANGED <<seen, llmClient, request>>
    /\ UNCHANGED aux

\* database.go MarkAsSeen.
MarkAsSeen ==
    /\ pc = "idle"
    /\ \E id \in Ids : seen' = seen \cup {id}
    /\ UNCHANGED <<vectors, llmClient, request>>
    /\ UNCHANGED aux

\* Handler.DeleteSeen: DELETE FROM seen_media.
DeleteSeen ==
    /\ pc = "idle"
    /\ \E id \in Ids : seen' = seen \ {id}
    /\ UNCHANGED <<vectors, llmClient, request>>
    /\ UNCHANGED aux

\* ------------------------------------------------------------- Search
\* scraper.go Search, lines 581-588: entry and defaults.
SearchStart ==
    /\ pc = "idle"
    /\ \E topK \in TopKInputs, finalResults \in FinalResultsInputs,
          useReranking \in BOOLEAN :
          config' = [TopK |-> IF topK <= 0 THEN DefaultTopK ELSE topK,
                     FinalResults |-> IF finalResults <= 0
                                      THEN DefaultFinalResults ELSE finalResults,
                     UseReranking |-> useReranking]
    /\ pc' = "embed"
    /\ UNCHANGED <<store, queryEmbedding, seenIDs, candidates,
                   rerankCandidates, reranked, result, calls, faults,
                   unresolvedIDs>>
    /\ UNCHANGED aux

\* Handler.GetRecommendSimple (GET /vibe): Search entered with the handler's
\* fixed SearchConfig.
GetRecommendSimple ==
    /\ pc = "idle"
    /\ config' = [TopK |-> VibeTopK, FinalResults |-> VibeFinalResults,
                  UseReranking |-> TRUE]
    /\ pc' = "embed"
    /\ UNCHANGED <<store, queryEmbedding, seenIDs, candidates,
                   rerankCandidates, reranked, result, calls, faults,
                   unresolvedIDs>>
    /\ UNCHANGED aux

\* Faulty variant: the error of Embed is ignored and the request goes on.
SearchEmbedIgnoringError ==
    /\ pc = "embed"
    /\ calls' = calls \cup {"Embed"}
    /\ \E q \in QueryVecs, ok \in BOOLEAN :
          /\ queryEmbedding' = IF ok THEN q ELSE NoVector
          /\ faults' = IF ok THEN faults ELSE faults \cup {"Embed"}
          /\ pc' = "seen"
          /\ result' = result
    /\ UNCHANGED <<store, config, seenIDs, candidates, rerankCandidates, reranked,
                   unresolvedIDs>>
    /\ UNCHANGED aux

\* scraper.go Search, lines 590-594: embed the query.
SearchEmbed ==
    /\ pc = "embed"
    /\ calls' = calls \cup {"Embed"}
    /\ \/ \E q \in QueryVecs :
             /\ queryEmbedding' = q
             /\ faults' = faults
             /\ pc' = "seen"
             /\ result' = result
       \/ /\ queryEmbedding' = queryEmbedding
          /\ faults' = faults \cup {"Embed"}
          /\ pc' = "done"
          /\ result' = [kind |-> "error", msg |-> "failed to embed query"]
    /\ UNCHANGED <<store, config, seenIDs, candidates, rerankCandidates, reranked,
                   unresolvedIDs>>
    /\ UNCHANGED aux

\* Faulty variant: the seen ids are not read from the store; the set held from
\* before is used.
SearchSeenReused ==
    /\ pc = "seen"
    /\ calls' = calls \cup {"GetSeenMediaIDs"}
    /\ seenIDs' = seenIDs
    /\ faults' = faults
    /\ pc' = "search"
    /\ result' = result
    /\ UNCHANGED <<store, config, queryEmbedding, candidates, rerankCandidates,
                   reranked, unresolvedIDs>>
    /\ UNCHANGED aux

\* scraper.go Search, lines 596-600: read the user's seen ids.
SearchSeen ==
    /\ pc = "seen"
    /\ calls' = calls \cup {"GetSeenMediaIDs"}
    /\ \/ /\ seenIDs' = seen
          /\ faults' = faults
          /\ pc' = "search"
          /\ result' = result
       \/ /\ seenIDs' = seenIDs
          /\ faults' = faults \cup {"GetSeenMediaIDs"}
          /\ pc' = "done"
          /\ result' = [kind |-> "error", msg |-> "failed to get seen media"]
    /\ UNCHANGED <<store, config, queryEmbedding, candidates, rerankCandidates,
                   reranked, unresolvedIDs>>
    /\ UNCHANGED aux

\* Faulty variant: an empty candidate list is reported as an error.
SearchVectorsEmptyIsError ==
    /\ pc = "search"
    /\ calls' = calls \cup {"VectorStore.Search"}
    /\ \E found \in VectorStoreSearch(vectors, queryEmbedding, config.TopK, seenIDs) :
          /\ candidates' = found
          /\ IF Len(found) = 0
             THEN /\ pc' = "done"
                  /\ result' = [kind |-> "error", msg |-> "no candidates"]
             ELSE /\ pc' = "hydrate"
                  /\ result' = result
    /\ UNCHANGED <<store, config, queryEmbedding, seenIDs, rerankCandidates,
                   reranked, faults, unresolvedIDs>>
    /\ UNCHANGED aux

\* scraper.go Search, lines 602-612: vector search, empty outcome.
SearchVectors ==
    /\ pc = "search"
    /\ calls' = calls \cup {"VectorStore.Search"}
    /\ \E found \in VectorStoreSearch(vectors, queryEmbedding, config.TopK, seenIDs) :
          /\ candidates' = found
          /\ IF Len(found) = 0
             THEN /\ pc' = "done"
                  /\ result' = [kind |-> "ok",
                                Recommendations |-> <<>>,
                                TotalCandidates |-> 0,
                                FilteredCount |-> Cardinality(seenIDs)]
             ELSE /\ pc' = "hydrate"
                  /\ result' = result
    /\ UNCHANGED <<store, config, queryEmbedding, seenIDs, rerankCandidates,
                   reranked, faults, unresolvedIDs>>
    /\ UNCHANGED aux

CandidateIDs(cands) == {cands[i].MediaID : i \in 1..Len(cands)}

\* Faulty variant: only the first FinalResults candidates are looked up, so a
\* dropped candidate uses up a place.
SearchHydrateCountingDropped ==
    /\ pc = "hydrate"
    /\ calls' = calls \cup {"GetMedia"}
    /\ \E unresolved \in SUBSET CandidateIDs(candidates) :
          /\ unresolvedIDs' = unresolved
          /\ faults' = IF unresolved = {} THEN faults ELSE faults \cup {"GetMedia"}
          /\ rerankCandidates' =
                Hydrate(Truncate(candidates, config.FinalResults), unresolved)
    /\ pc' = "rank"
    /\ UNCHANGED <<store, config, queryEmbedding, seenIDs, candidates, reranked,
                   result>>
    /\ UNCHANGED aux

\* scraper.go Search, lines 614-625: GetMedia for every candidate.
SearchHydrate ==
    /\ pc = "hydrate"
    /\ calls' = calls \cup {"GetMedia"}
    /\ \E unresolved \in SUBSET CandidateIDs(candidates) :
          /\ unresolvedIDs' = unresolved
          /\ faults' = IF unresolved = {} THEN faults ELSE faults \cup {"GetMedia"}
          /\ rerankCandidates' = Hydrate(candidates, unresolved)
    /\ pc' = "rank"
    /\ UNCHANGED <<store, config, queryEmbedding, seenIDs, candidates, reranked,
                   result>>
    /\ UNCHANGED aux

\* Faulty variant: an error of the judge is returned to the caller.
SearchRankPropagating ==
    /\ pc = "rank"
    /\ IF config.UseReranking /\ llmClient /\ Len(rerankCandidates) > 0
       THEN /\ calls' = calls \cup {"RerankByVibe"}
            /\ reranked' \in RerankByVibe(rerankCandidates)
            /\ faults' = IF reranked'.err THEN faults \cup {"RerankByVibe"}
                          ELSE faults
       ELSE /\ calls' = calls
            /\ reranked' = reranked
            /\ faults' = faults
    /\ result' = IF reranked'.err
                 THEN [kind |-> "error", msg |-> "rerank request failed"]
                 ELSE [kind |-> "ok",
                       Recommendations |->
                           Recommend(reranked', rerankCandidates, config.FinalResults),
                       TotalCandidates |-> Len(candidates),
                       FilteredCount |-> Cardinality(seenIDs)]
    /\ pc' = "done"
    /\ UNCHANGED <<store, config, queryEmbedding, seenIDs, candidates,
                   rerankCandidates, unresolvedIDs>>
    /\ UNCHANGED aux

\* scraper.go Search, lines 627-707: judge or not, assemble, return.
SearchRank ==
    /\ pc = "rank"
    /\ IF config.UseReranking /\ llmClient /\ Len(rerankCandidates) > 0
       THEN /\ calls' = calls \cup {"RerankByVibe"}
            /\ reranked' \in RerankByVibe(rerankCandidates)
            /\ faults' = IF reranked'.err THEN faults \cup {"RerankByVibe"}
                          ELSE faults
       ELSE /\ calls' = calls
            /\ reranked' = reranked
            /\ faults' = faults
    /\ result' = [kind |-> "ok",
                  Recommendations |->
                      Recommend(reranked', rerankCandidates, config.FinalResults),
                  TotalCandidates |-> Len(candidates),
                  FilteredCount |-> Cardinality(seenIDs)]
    /\ pc' = "done"
    /\ UNCHANGED <<store, config, queryEmbedding, seenIDs, candidates,
                   rerankCandidates, unresolvedIDs>>
    /\ UNCHANGED aux

\* The caller has the response; the request's locals are gone.
SearchReturn ==
    /\ pc = "done"
    /\ pc' = "idle"
    /\ config' = NoConfig
    /\ queryEmbedding' = NoVector
    /\ seenIDs' = {}
    /\ candidates' = <<>>
    /\ rerankCandidates' = <<>>
    /\ reranked' = NoJudge
    /\ result' = NoResult
    /\ calls' = {}
    /\ faults' = {}
    /\ unresolvedIDs' = {}
    /\ UNCHANGED store
    /\ UNCHANGED aux

\* ------------------------------------------------------ GetSimilarToMedia
\* Faulty variant: the source media is not added to the exclusion set.
SimilarExcludeSeenOnly(seenMediaIDs, mediaID) == seenMediaIDs

\* scraper.go GetSimilarToMedia, line 727: seenIDs[mediaID] = true.
SimilarExclude(seenMediaIDs, mediaID) == seenMediaIDs \cup {mediaID}

\* scraper.go GetSimilarToMedia, lines 732-747: the first n candidates, those
\* without a record skipped, each ranked by its position among the candidates.
RECURSIVE SimilarLoop(_, _, _)
SimilarLoop(cands, n, unresolved) ==
    IF n = 0 THEN <<>>
    ELSE LET c == cands[n]
             before == SimilarLoop(cands, n - 1, unresolved)
         IN IF c.MediaID \in unresolved THEN before
            ELSE Append(before, [Media |-> [ID |-> c.MediaID],
                                 VibeScore |-> c.Similarity,
                                 Explanation |-> "similar-vibe-to-source",
                                 Rank |-> n])

\* scraper.go GetSimilarToMedia, as called by Handler.GetSimilar: the whole
\* call, up to its return value.
GetSimilarToMedia ==
    /\ pc = "idle"
    /\ \E mediaID \in Ids, limit \in SimilarLimits,
          embeddingErr \in BOOLEAN, seenErr \in BOOLEAN :
          LET call == [op |-> "GetSimilarToMedia", mediaID |-> mediaID,
                       limit |-> limit]
              failed(why) == call @@ [kind |-> "error", error |-> why]
          IN IF embeddingErr
             THEN similar' = failed("failed to get source embedding")
             ELSE IF mediaID \notin DOMAIN vectors
             THEN similar' = failed("no embedding found")
             ELSE IF seenErr
             THEN similar' = failed("failed to get seen media")
             ELSE \E cands \in VectorStoreSearch(vectors, vectors[mediaID], limit * 2,
                                                 SimilarExclude(seen, mediaID)) :
                    \E unresolved \in SUBSET CandidateIDs(cands) :
                        similar' = call @@
                            [kind |-> "ok",
                             topK |-> limit * 2,
                             candidates |-> cands,
                             unresolved |-> unresolved,
                             recommendations |->
                                 SimilarLoop(cands, Min(Len(cands), limit), unresolved)]
    /\ pc' = "similar"
    /\ UNCHANGED <<store, config, queryEmbedding, seenIDs, candidates,
                   rerankCandidates, reranked, result, calls, faults,
                   unresolvedIDs, ixCall, media, gems, goroutines>>
    /\ UNCHANGED ext

\* Handler.GetSimilar has written the response.
SimilarReturn ==
    /\ pc = "similar"
    /\ pc' = "idle"
    /\ similar' = NoCall
    /\ UNCHANGED <<store, config, queryEmbedding, seenIDs, candidates,
                   rerankCandidates, reranked, result, calls, faults,
                   unresolvedIDs, ixCall, media, gems, goroutines>>
    /\ UNCHANGED ext

Next ==
    \/ Add
    \/ Remove
    \/ MarkAsSeen
    \/ DeleteSeen
    \/ SearchStart
    \/ GetRecommendSimple
    \/ SearchEmbed
    \/ SearchSeen
    \/ SearchVectors
    \/ SearchHydrate
    \/ SearchRank
    \/ SearchReturn
    \/ GetSimilarToMedia
    \/ SimilarReturn

Spec == Init /\ [][Next]_vars

\* ------------------------------------------------------------- properties
\* Search has returned a SearchResult with no error.
Returned == pc = "done" /\ result.kind = "ok"

Recs == result.Recommendations

RecIDs == {Recs[i].Media.ID : i \in 1..Len(Recs)}

\* The judge was invoked and answered without error.
JudgeSucceeded == reranked.called /\ ~reranked.err

\* Ids the judge's verdicts name.
VerdictIDs == {reranked.results[k].MediaID : k \in 1..Len(reranked.results)}

\* Candidates of this request whose record resolved, in retrieval order.
Resolved == SelectSeq(candidates, LAMBDA c : c.MediaID \notin unresolvedIDs)

\* Resolved candidates no verdict names, in retrieval order.
Leftover == SelectSeq(Resolved, LAMBDA c : c.MediaID \notin VerdictIDs)

\* Verdicts that name a resolved candidate, in the judge's order.
Usable ==
    SelectSeq(reranked.results, LAMBDA r : r.MediaID \in CandidateIDs(Resolved))

\* C1: no media id of the exclusion set read for the request appears in the
\* recommendation list Search returns.
C1_ExclusionHolds ==
    Returned => RecIDs \cap seenIDs = {}

\* C1 witness: a judged request with a seen id in the index, which the judge
\* names in a verdict, returns recommendations.
C1_Witness ==
    /\ Returned
    /\ JudgeSucceeded
    /\ seenIDs \cap DOMAIN vectors \cap VerdictIDs # {}
    /\ Len(Recs) > 0

\* C2: in every non-empty list Search returns the rank values are exactly
\* 1..n, each once, n the length of the list.
C2_RankContiguity ==
    (Returned /\ Len(Recs) > 0) =>
        \A k \in 1..Len(Recs) :
            Cardinality({i \in 1..Len(Recs) : Recs[i].Rank = k}) = 1

\* C3: no media id appears more than once in the list Search returns.
C3_NoDuplicateMedia ==
    Returned =>
        \A i, j \in 1..Len(Recs) : Recs[i].Media.ID = Recs[j].Media.ID => i = j

\* C4: when the query embedding and the exclusion lookup both succeeded,
\* Search returns a result and no error, whatever hydration and the judge did.
C4_OnlyRetrievalFails ==
    (pc = "done" /\ "Embed" \notin faults /\ "GetSeenMediaIDs" \notin faults)
        => result.kind = "ok"

\* C4 witness: a request in which a record lookup and the judge both failed
\* has returned.
C4_Witness ==
    /\ pc = "done"
    /\ {"GetMedia", "RerankByVibe"} \subseteq faults
    /\ result.kind = "ok"
    /\ Len(Recs) > 0

\* C5: with the judge disabled, not configured or failing, the list is the
\* resolved candidates in retrieval (non-increasing similarity) order cut at
\* finalResults, position i carrying rank i.
C5_FallbackIsPositional ==
    (Returned /\ Len(candidates) > 0
        /\ (~config.UseReranking \/ ~llmClient \/ reranked.err)) =>
        /\ Len(Recs) = Min(Len(Resolved), config.FinalResults)
        /\ \A i \in 1..Len(Recs) :
              /\ Recs[i].Media.ID = Resolved[i].MediaID
              /\ Recs[i].VibeScore = Resolved[i].Similarity
              /\ Recs[i].Rank = i
        /\ \A i, j \in 1..Len(Recs) : i < j => Recs[i].VibeScore >= Recs[j].VibeScore

\* C5 witness: the judge failed on three resolved candidates of different
\* similarity and the list was cut at finalResults.
C5_Witness ==
    /\ Returned
    /\ reranked.err
    /\ Len(Resolved) = 3
    /\ Len(Recs) = 2
    /\ Recs[1].VibeScore > Recs[2].VibeScore

\* C6: a failed query embedding or exclusion lookup ends the request with an
\* error and no result, and the vector search, hydration and judge are not
\* invoked for it.
C6_RetrievalFailureIsFatal ==
    ("Embed" \in faults \/ "GetSeenMediaIDs" \in faults) =>
        /\ pc = "done"
        /\ result.kind = "error"
        /\ DOMAIN result = {"kind", "msg"}
        /\ calls \cap {"VectorStore.Search", "GetMedia", "RerankByVibe"} = {}
        /\ candidates = <<>> /\ rerankCandidates = <<>> /\ ~reranked.called

\* C6 witness: the exclusion lookup failed while the index held entries and a
\* judge was configured and asked for.
C6_Witness ==
    /\ pc = "done"
    /\ "GetSeenMediaIDs" \in faults
    /\ DOMAIN vectors # {}
    /\ llmClient /\ config.UseReranking

\* C7: every recommendation carries as vibe_score the similarity the vector
\* index computed for its media id in this request.
C7_ScoreIsRetrievalSimilarity ==
    Returned =>
        \A i \in 1..Len(Recs) :
            /\ \E j \in 1..Len(candidates) :
                  /\ candidates[j].MediaID = Recs[i].Media.ID
                  /\ candidates[j].Similarity = Recs[i].VibeScore
            /\ Recs[i].VibeScore =
                  CosineSimilarity(queryEmbedding, vectors[Recs[i].Media.ID])

\* C7 witness: the judge put a less similar candidate ahead of a more similar
\* one, with ranks of its own.
C7_Witness ==
    /\ Returned
    /\ JudgeSucceeded
    /\ Len(Recs) >= 2
    /\ Recs[1].Explanation = "judge" /\ Recs[2].Explanation = "judge"
    /\ Recs[1].VibeScore < Recs[2].VibeScore
    /\ Recs[1].Rank # Recs[1].VibeScore

\* C8: Search never returns more than finalResults recommendations.
C8_AtMostFinalResults ==
    Returned => Len(Recs) <= config.FinalResults

\* C9: when the judge succeeds with fewer usable verdicts than finalResults,
\* the entries after them are the resolved candidates no verdict names, in
\* retrieval (non-increasing similarity) order, each ranked by its position
\* in the list and with the generic explanation, until finalResults is
\* reached or they are exhausted.
C9_FillFromLeftover ==
    (Returned /\ JudgeSucceeded /\ Len(Usable) < config.FinalResults) =>
        LET p == Len(Usable)
        IN /\ Len(Recs) = Min(config.FinalResults, p + Len(Leftover))
           /\ \A k \in 1..(Len(Recs) - p) :
                 /\ Recs[p + k].Media.ID = Leftover[k].MediaID
                 /\ Recs[p + k].VibeScore = Leftover[k].Similarity
                 /\ Recs[p + k].Rank = p + k
                 /\ Recs[p + k].Explanation = "similar-vibe"
           /\ \A a, b \in 1..(Len(Recs) - p) :
                 a < b => Recs[p + a].VibeScore >= Recs[p + b].VibeScore

\* C9 witness: one usable verdict for the least similar of three resolved
\* candidates, the other two filled behind it in similarity order.
C9_Witness ==
    /\ Returned
    /\ JudgeSucceeded
    /\ Len(Usable) = 1
    /\ Len(Recs) = 3
    /\ Recs[1].VibeScore < Recs[3].VibeScore
    /\ Recs[2].VibeScore > Recs[3].VibeScore
    /\ Recs[2].Explanation = "similar-vibe"

\* C10: a verdict naming an id that is not a resolved candidate yields no
\* recommendation and no error; the usable verdicts keep their order and the
\* places left are filled from the leftover candidates in retrieval order.
C10_UnknownVerdictDropped ==
    (pc = "done" /\ JudgeSucceeded
        /\ ~(VerdictIDs \subseteq CandidateIDs(Resolved))) =>
        /\ result.kind = "ok"
        /\ RecIDs \subseteq CandidateIDs(Resolved)
        /\ LET p == Len(Usable)
               fill == IF p < config.FinalResults
                       THEN Min(config.FinalResults - p, Len(Leftover)) ELSE 0
           IN /\ Len(Recs) = p + fill
              /\ \A k \in 1..p :
                    /\ Recs[k].Media.ID = Usable[k].MediaID
                    /\ Recs[k].Rank = Usable[k].Rank
              /\ \A k \in 1..fill : Recs[p + k].Media.ID = Leftover[k].MediaID

\* C10 witness: the judge's only verdict names an id outside the resolved
\* candidates and the single place asked for went to a leftover candidate.
C10_Witness ==
    /\ Returned
    /\ JudgeSucceeded
    /\ Len(reranked.results) = 1
    /\ Len(Usable) = 0
    /\ config.FinalResults = 1
    /\ Len(Recs) = 1
    /\ Recs[1].Explanation = "similar-vibe"

\* C11: on the paths without a judge answer, a candidate whose record does
\* not resolve is left out without an error and without using up a place: the
\* list has min(finalResults, number of resolved candidates) entries, none of
\* them unresolved.
C11_UnresolvedTakesNoSlot ==
    (pc = "done" /\ unresolvedIDs # {} /\ ~JudgeSucceeded) =>
        /\ result.kind = "ok"
        /\ RecIDs \cap unresolvedIDs = {}
        /\ Len(Recs) = Min(config.FinalResults,
                           Cardinality(CandidateIDs(candidates) \ unresolvedIDs))

\* C11 witness: the most similar of three candidates did not resolve and the
\* two places asked for went to the other two.
C11_Witness ==
    /\ Returned
    /\ ~reranked.called
    /\ Len(candidates) = 3
    /\ unresolvedIDs = {candidates[1].MediaID}
    /\ config.FinalResults = 2
    /\ Len(Recs) = 2

\* C12: when the vector search returns no candidate, Search succeeds with an
\* empty list, totalCandidates 0 and filteredCount the size of the exclusion
\* set; the search of an empty index returns the empty sequence.
C12_NoCandidatesIsSuccess ==
    /\ (pc = "done" /\ "VectorStore.Search" \in calls /\ candidates = <<>>) =>
          /\ result = [kind |-> "ok", Recommendations |-> <<>>,
                       TotalCandidates |-> 0, FilteredCount |-> Cardinality(seen)]
          /\ faults = {}
    /\ ("VectorStore.Search" \in calls
            /\ (DOMAIN vectors = {} \/ DOMAIN vectors \subseteq seenIDs)) =>
          candidates = <<>>

\* C12 witness: every indexed id is in the exclusion set of the request.
C12_Witness ==
    /\ Returned
    /\ "VectorStore.Search" \in calls
    /\ DOMAIN vectors # {}
    /\ DOMAIN vectors \subseteq seenIDs
    /\ result.FilteredCount = Cardinality(DOMAIN vectors)

\* What a successful GetSimilarToMedia call handed back.
SimilarReturned == pc = "similar" /\ similar.kind = "ok"
SimilarRecs == similar.recommendations
SimilarRecIDs == {SimilarRecs[i].Media.ID : i \in 1..Len(SimilarRecs)}

\* C18: GetSimilarToMedia(userID, mediaID, limit) never returns the source
\* media itself nor a media the user has seen, and returns at most limit
\* recommendations.
C18_SimilarExcludesSourceAndSeen ==
    SimilarReturned =>
        /\ similar.mediaID \notin SimilarRecIDs
        /\ SimilarRecIDs \cap seen = {}
        /\ Len(SimilarRecs) <= similar.limit

C18_Witness ==
    /\ SimilarReturned /\ similar.mediaID = "X" /\ seen = {"Y"}
    /\ DOMAIN vectors = Ids /\ similar.limit = 1
    /\ vectors["X"] = vectors["Y"] /\ vectors["Z"] # vectors["X"]
    /\ SimilarRecIDs = {"Z"}

\* C19: every non-empty list GetSimilarToMedia returns, also when retrieved
\* candidates without a record were dropped, carries the ranks 1..n in order,
\* with no gap and no repeat.
C19_SimilarRanksContiguous ==
    SimilarReturned =>
        \A i \in 1..Len(SimilarRecs) : SimilarRecs[i].Rank = i

\* C26: every call of VectorStore.Search made by the service passes
\* topK > 0: Search and GetSimilarToMedia replace a non-positive topK or
\* limit by a positive default before they call it.
C26_SearchCalledWithPositiveTopK ==
    /\ "VectorStore.Search" \in calls => config.TopK > 0
    /\ SimilarReturned => similar.topK > 0

\* The request in flight came in through GET /vibe.
QuickVibeRequest ==
    pc # "idle" /\ config.TopK = VibeTopK /\ config.FinalResults = VibeFinalResults

\* C25: a request to GET /vibe (Handler.GetRecommendSimple) never invokes
\* RerankByVibe; its recommendations are produced without reranking.
C25_QuickVibeSkipsJudge ==
    QuickVibeRequest => ("RerankByVibe" \notin calls /\ ~reranked.called)

\* ------------------------------------------------- the index on its own
\* embeddings.go VectorStore.Add, called directly.
IxAdd ==
    /\ \E id \in Ids, v \in IndexVecs :
          /\ vectors' = VectorStoreAdd(vectors, id, v)
          /\ ixCall' = [op |-> "Add", id |-> id, v |-> v,
                        had |-> id \in DOMAIN vectors,
                        old |-> IF id \in DOMAIN vectors THEN vectors[id] ELSE NoVector,
                        sizeBefore |-> VectorStoreSize(vectors)]
    /\ UNCHANGED <<seen, llmClient, request, similar, media, gems, goroutines>>
    /\ UNCHANGED ext

\* embeddings.go VectorStore.Remove, called directly.
IxRemove ==
    /\ \E id \in Ids :
          /\ vectors' = VectorStoreRemove(vectors, id)
          /\ ixCall' = [op |-> "Remove", id |-> id,
                        had |-> id \in DOMAIN vectors,
                        sizeBefore |-> VectorStoreSize(vectors)]
    /\ UNCHANGED <<seen, llmClient, request, similar, media, gems, goroutines>>
    /\ UNCHANGED ext

\* embeddings.go VectorStore.Size, called directly.
IxSize ==
    /\ ixCall' = [op |-> "Size", ret |-> VectorStoreSize(vectors)]
    /\ UNCHANGED <<store, request, similar, media, gems, goroutines>>
    /\ UNCHANGED ext

\* embeddings.go VectorStore.Search, called directly with topK > 0.
IxSearch ==
    /\ \E query \in IndexQueries, topK \in 1..MaxTopK, excludeIDs \in SUBSET Ids :
          \E ret \in VectorStoreSearch(vectors, query, topK, excludeIDs) :
              ixCall' = [op |-> "Search", query |-> query, topK |-> topK,
                         excludeIDs |-> excludeIDs, ret |-> ret]
    /\ UNCHANGED <<store, request, similar, media, gems, goroutines>>
    /\ UNCHANGED ext

NextIndex == IxAdd \/ IxRemove \/ IxSize \/ IxSearch

SpecIndex == Init /\ [][NextIndex]_vars

\* Entries a direct Search may return, and what it returned.
IxEligible == (DOMAIN vectors) \ ixCall.excludeIDs
IxRet == ixCall.ret
IxRetIDs == {IxRet[i].MediaID : i \in 1..Len(IxRet)}
IxSim(id) == CosineSimilarity(ixCall.query, vectors[id])
ScenarioIndex == [id \in Ids |-> CASE id = "X" -> <<1, 0>>
                                   [] id = "Y" -> <<0, 1>>
                                   [] id = "Z" -> <<7, 7>>]

\* C13: search(q, topK, exclude) with topK > 0 returns exactly
\* min(topK, number of non-excluded entries) candidates, each a distinct
\* non-excluded entry carrying its cosine similarity to q, in non-increasing
\* similarity order, and every non-excluded entry left out is no more similar
\* than the last one returned.  With X=[1,0], Y=[0,1], Z=[7,7], q=[1,0] and
\* topK 3 the answer is X, Z, Y; with X excluded it is Z, Y.
C13_SearchIsTopK ==
    ixCall.op = "Search" =>
        /\ Len(IxRet) = Min(ixCall.topK, Cardinality(IxEligible))
        /\ IxRetIDs \subseteq IxEligible
        /\ Cardinality(IxRetIDs) = Len(IxRet)
        /\ \A i \in 1..Len(IxRet) : IxRet[i].Similarity = IxSim(IxRet[i].MediaID)
        /\ \A i, j \in 1..Len(IxRet) :
              i < j => IxRet[i].Similarity >= IxRet[j].Similarity
        /\ \A id \in IxEligible \ IxRetIDs :
              IxSim(id) <= IxRet[Len(IxRet)].Similarity
        /\ (vectors = ScenarioIndex /\ ixCall.query = <<1, 0>> /\ ixCall.topK = 3) =>
              /\ ixCall.excludeIDs = {} =>
                    IxRet = <<[MediaID |-> "X", Similarity |-> 1000],
                              [MediaID |-> "Z", Similarity |-> 707],
                              [MediaID |-> "Y", Similarity |-> 0]>>
              /\ ixCall.excludeIDs = {"X"} =>
                    IxRet = <<[MediaID |-> "Z", Similarity |-> 707],
                              [MediaID |-> "Y", Similarity |-> 0]>>

C13_Witness ==
    /\ ixCall.op = "Search" /\ vectors = ScenarioIndex
    /\ ixCall.query = <<1, 0>> /\ ixCall.topK = 2 /\ ixCall.excludeIDs = {"X"}
    /\ Len(IxRet) = 2 /\ IxRet[1].MediaID = "Z"

\* C14: upsert(id, v) leaves exactly one entry for id, holding v; an upsert
\* of an id already present (the second of two upserts) replaces its vector
\* and leaves size() as it was, an upsert of a new id raises size() by one,
\* and a remove leaves no entry for the id.
C14_UpsertReplaces ==
    /\ ixCall.op = "Add" =>
          /\ ixCall.id \in DOMAIN vectors
          /\ vectors[ixCall.id] = ixCall.v
          /\ VectorStoreSize(vectors) =
                ixCall.sizeBefore + (IF ixCall.had THEN 0 ELSE 1)
    /\ ixCall.op = "Remove" =>
          /\ ixCall.id \notin DOMAIN vectors
          /\ VectorStoreSize(vectors) =
                ixCall.sizeBefore - (IF ixCall.had THEN 1 ELSE 0)

C14_Witness ==
    /\ ixCall.op = "Add" /\ ixCall.had /\ ixCall.old = <<1, 0>>
    /\ ixCall.v = <<0, 1>> /\ vectors[ixCall.id] = <<0, 1>>
    /\ VectorStoreSize(vectors) = 2 /\ ixCall.sizeBefore = 2

\* C15: two searches with the same query, topK and exclusion set over the
\* same index contents return the same candidates in the same order, also
\* when entries are equally similar: a Search has one possible answer.
C15_SearchIsDeterministic ==
    ixCall.op = "Search" =>
        \A other \in VectorStoreSearch(vectors, ixCall.query, ixCall.topK,
                                       ixCall.excludeIDs) :
            other = IxRet

\* A stored vector the query cannot be compared with.
Degenerate(q, v) == Len(q) # Len(v) \/ Dot(q, q) = 0 \/ Dot(v, v) = 0

\* C17: an entry whose vector differs in length from the query, or where
\* either vector has zero norm, takes part in the search with similarity 0:
\* it is returned with similarity 0 whenever it is returned, it is returned
\* whenever topK leaves room for every non-excluded entry, and the search
\* still returns min(topK, number of non-excluded entries) candidates.
C17_DegenerateScoresZero ==
    ixCall.op = "Search" =>
        /\ \A i \in 1..Len(IxRet) :
              Degenerate(ixCall.query, vectors[IxRet[i].MediaID]) =>
                  IxRet[i].Similarity = 0
        /\ ixCall.topK >= Cardinality(IxEligible) =>
              \A id \in IxEligible :
                  Degenerate(ixCall.query, vectors[id]) => id \in IxRetIDs
        /\ Len(IxRet) = Min(ixCall.topK, Cardinality(IxEligible))

C17_Witness ==
    /\ ixCall.op = "Search" /\ ixCall.query = <<1, 0>> /\ DOMAIN vectors = Ids
    /\ vectors["X"] = <<1>> /\ vectors["Y"] = <<0, 0>> /\ vectors["Z"] = <<1, 0>>
    /\ IxRet = <<[MediaID |-> "Z", Similarity |-> 1000],
                 [MediaID |-> "X", Similarity |-> 0],
                 [MediaID |-> "Y", Similarity |-> 0]>>

\* ------------------------------------- concurrent calls on one VectorStore
\* gin serves every request on its own goroutine; VectorStore has no lock, so
\* a method is entered whenever a request reaches it.
Idle == [at |-> "idle"]
Reading(g) == goroutines[g].at = "Search.range"
Writing(g) == goroutines[g].at \in {"Add.assign", "Remove.delete"}
Fatal == \E g \in Goroutines : goroutines[g].at = "fatal"
notStore == <<seen, llmClient, request, ixCall, similar, media, gems, ext>>

\* embeddings.go Search, line 157: the range over vs.vectors is entered.
RaceSearchBegin(g) ==
    /\ goroutines[g] = Idle
    /\ goroutines' = [goroutines EXCEPT ![g] =
            [at |-> "Search.range", began |-> DOMAIN vectors, read |-> {}]]
    /\ UNCHANGED <<vectors, notStore>>

\* embeddings.go Search, lines 157-168: one iteration reads one entry not yet
\* visited.
RaceSearchScan(g) ==
    /\ Reading(g)
    /\ \E id \in (DOMAIN vectors) \ {r[1] : r \in goroutines[g].read} :
          goroutines' = [goroutines EXCEPT ![g].read = @ \cup {<<id, vectors[id]>>}]
    /\ UNCHANGED <<vectors, notStore>>

\* embeddings.go Search, lines 168-180: the range ends once every entry that
\* was present throughout has been visited; an entry added meanwhile may be
\* skipped.
RaceSearchEnd(g) ==
    /\ Reading(g)
    /\ (DOMAIN vectors) \cap goroutines[g].began
            \subseteq {r[1] : r \in goroutines[g].read}
    /\ goroutines' = [goroutines EXCEPT ![g] = Idle]
    /\ UNCHANGED <<vectors, notStore>>

\* embeddings.go Add, line 129 / Remove, line 134: the map write starts.
RaceWriteBegin(g) ==
    /\ goroutines[g] = Idle
    /\ \/ \E id \in RaceIds, v \in RaceVecs :
            goroutines' = [goroutines EXCEPT ![g] =
                [at |-> "Add.assign", id |-> id, v |-> v]]
       \/ \E id \in RaceIds :
            goroutines' = [goroutines EXCEPT ![g] =
                [at |-> "Remove.delete", id |-> id]]
    /\ UNCHANGED <<vectors, notStore>>

\* embeddings.go Add, line 129 / Remove, line 134: the map write is done.
RaceWriteEnd(g) ==
    /\ Writing(g)
    /\ vectors' = IF goroutines[g].at = "Add.assign"
                  THEN VectorStoreAdd(vectors, goroutines[g].id, goroutines[g].v)
                  ELSE VectorStoreRemove(vectors, goroutines[g].id)
    /\ goroutines' = [goroutines EXCEPT ![g] = Idle]
    /\ UNCHANGED notStore

\* The Go runtime may notice a map write running beside another access of
\* the same map and stop the process ("concurrent map iteration and map
\* write", "concurrent map writes").
RaceFatal ==
    /\ \E g, h \in Goroutines :
          g # h /\ Writing(g) /\ (Writing(h) \/ Reading(h))
    /\ goroutines' = [g \in Goroutines |-> [at |-> "fatal"]]
    /\ UNCHANGED <<vectors, notStore>>

NextRace ==
    \/ \E g \in Goroutines :
          \/ RaceSearchBegin(g)
          \/ RaceSearchScan(g)
          \/ RaceSearchEnd(g)
          \/ RaceWriteBegin(g)
          \/ RaceWriteEnd(g)
    \/ RaceFatal

SpecRace == Init /\ [][NextRace]_vars

\* C16: in every interleaving of concurrent search, upsert and remove calls
\* no search is reading the id-to-vector map while an upsert or remove is
\* writing it, no two writes overlap, and so the process is never stopped
\* over a concurrent map access.
C16_ReaderWriterDiscipline ==
    /\ \A g, h \in Goroutines :
          (g # h /\ Writing(g)) => ~(Writing(h) \/ Reading(h))
    /\ ~Fatal

\* ------------------------------------------------------------ GetHiddenGems
\* database.go CreateMedia: a new row with the scores it is given (the id is
\* the primary key, so a second insert of an id fails).
CreateMedia ==
    /\ pc = "idle"
    /\ \E id \in Ids \ DOMAIN media, q \in QualityInputs, p \in PopularityInputs :
          media' = [i \in (DOMAIN media) \cup {id} |->
                       IF i = id THEN [quality_score |-> q, popularity_score |-> p]
                       ELSE media[i]]
    /\ UNCHANGED <<store, request, ixCall, similar, gems, goroutines>>
    /\ UNCHANGED ext

\* database.go UpdateQualityScore: quality_score = quality_score + boost.
UpdateQualityScore ==
    /\ pc = "idle"
    /\ \E id \in DOMAIN media, boost \in Boosts :
          /\ media[id].quality_score + boost <= MaxQuality
          /\ media' = [media EXCEPT ![id].quality_score = @ + boost]
    /\ UNCHANGED <<store, request, ixCall, similar, gems, goroutines>>
    /\ UNCHANGED ext

\* Faulty variant: the factor 0.5 is left out of the comparison.
GemEligibleNoHalf(m) == m.quality_score > m.popularity_score

\* scraper.go GetHiddenGems, line 768: quality_score > popularity_score * 0.5.
GemEligible(m) == 2 * m.quality_score > m.popularity_score

\* scraper.go GetHiddenGems, line 769: quality_score - popularity_score * 0.3,
\* in hundredths.
GemScore(m) == 10 * m.quality_score - 3 * m.popularity_score

GemRow(id) ==
    [ID |-> id, QualityScore |-> media[id].quality_score,
     PopularityScore |-> media[id].popularity_score]

\* Faulty variant: the query has no anti-join on seen_media.
HiddenGemsQueryNoAntiJoin(seenRows, n) ==
    {Truncate(p, n) :
        p \in {r \in Perms({GemRow(id) : id \in {i \in DOMAIN media :
                                                    GemEligible(media[i])}}) :
                 \A i, j \in 1..Len(r) :
                     i < j => GemScore(media[r[i].ID]) >= GemScore(media[r[j].ID])}}

\* scraper.go GetHiddenGems, lines 761-771: every row sequence the query may
\* give (rows of equal score come in an order SQL leaves open).
HiddenGemsQuery(seenRows, n) ==
    {Truncate(p, n) :
        p \in {r \in Perms({GemRow(id) : id \in {i \in (DOMAIN media) \ seenRows :
                                                    GemEligible(media[i])}}) :
                 \A i, j \in 1..Len(r) :
                     i < j => GemScore(media[r[i].ID]) >= GemScore(media[r[j].ID])}}

\* scraper.go GetHiddenGems, lines 777-788: rows not seen, while fewer than
\* limit are kept.
RECURSIVE GemsLoop(_, _, _)
GemsLoop(rows, seenMediaIDs, limit) ==
    IF rows = <<>> THEN <<>>
    ELSE LET m == rows[Len(rows)]
             before == GemsLoop(SubSeq(rows, 1, Len(rows) - 1), seenMediaIDs, limit)
         IN IF m.ID \notin seenMediaIDs /\ Len(before) < limit
            THEN Append(before, m) ELSE before

\* scraper.go GetHiddenGems, as called by Handler.GetHiddenGems: the whole
\* call, up to its return value.
GetHiddenGems ==
    /\ pc = "idle"
    /\ \E limit \in GemLimits, seenErr \in BOOLEAN, queryErr \in BOOLEAN :
          IF seenErr \/ queryErr
          THEN gems' = [op |-> "GetHiddenGems", limit |-> limit, kind |-> "error"]
          ELSE \E rows \in HiddenGemsQuery(seen, limit * 2) :
                  gems' = [op |-> "GetHiddenGems", limit |-> limit, kind |-> "ok",
                           rows |-> rows, ret |-> GemsLoop(rows, seen, limit)]
    /\ pc' = "gems"
    /\ UNCHANGED <<store, config, queryEmbedding, seenIDs, candidates,
                   rerankCandidates, reranked, result, calls, faults,
                   unresolvedIDs, ixCall, similar, media, goroutines>>
    /\ UNCHANGED ext

\* Handler.GetHiddenGems has written the response.
GemsReturn ==
    /\ pc = "gems"
    /\ pc' = "idle"
    /\ gems' = NoCall
    /\ UNCHANGED <<store, config, queryEmbedding, seenIDs, candidates,
                   rerankCandidates, reranked, result, calls, faults,
                   unresolvedIDs, ixCall, similar, media, goroutines>>
    /\ UNCHANGED ext

NextGems ==
    \/ CreateMedia
    \/ UpdateQualityScore
    \/ MarkAsSeen
    \/ DeleteSeen
    \/ GetHiddenGems
    \/ GemsReturn

SpecGems == Init /\ [][NextGems]_vars

\* What a successful GetHiddenGems call handed back, and the rows it had to
\* choose from.
GemsReturned == pc = "gems" /\ gems.kind = "ok"
GemsRet == gems.ret
GemsRetIDs == {GemsRet[i].ID : i \in 1..Len(GemsRet)}
GemsChoice == {id \in (DOMAIN media) \ seen : GemEligible(media[id])}

\* C20: GetHiddenGems(userID, limit) returns the first limit items, by
\* descending quality_score - 0.3 * popularity_score, of the stored items the
\* user has not seen whose quality_score exceeds 0.5 * popularity_score: as
\* many as min(limit, number of such items), each an item of that set with
\* its stored scores, in non-increasing score order, none left out that
\* scores higher than the last one returned; a seen item takes no slot.
C20_HiddenGemsAreTopEligible ==
    GemsReturned =>
        /\ GemsRetIDs \subseteq GemsChoice
        /\ Cardinality(GemsRetIDs) = Len(GemsRet)
        /\ Len(GemsRet) = Min(gems.limit, Cardinality(GemsChoice))
        /\ \A i \in 1..Len(GemsRet) : GemsRet[i] = GemRow(GemsRet[i].ID)
        /\ \A i, j \in 1..Len(GemsRet) :
              i < j => GemScore(media[GemsRet[i].ID]) >= GemScore(media[GemsRet[j].ID])
        /\ \A id \in GemsChoice \ GemsRetIDs :
              GemScore(media[id]) <= GemScore(media[GemsRet[Len(GemsRet)].ID])

C20_Witness ==
    /\ GemsReturned /\ gems.limit = 1 /\ DOMAIN media = Ids /\ seen = {"X", "Y"}
    /\ \A id \in Ids : GemEligible(media[id])
    /\ GemScore(media["X"]) > GemScore(media["Z"])
    /\ GemScore(media["Y"]) > GemScore(media["Z"])
    /\ GemsRetIDs = {"Z"}

\* Scenario E: A (here X) has quality 0.9 and popularity 0.3, B (here Y) has
\* quality 0.4 and popularity 0.5, nothing else is stored and nothing is seen.
ScenarioE ==
    /\ DOMAIN media = {"X", "Y"}
    /\ media["X"] = [quality_score |-> 9, popularity_score |-> 3]
    /\ media["Y"] = [quality_score |-> 4, popularity_score |-> 5]
    /\ seen = {}

\* C21 as stated: in Scenario E GetHiddenGems returns A and does not return
\* B.
C21_OnlyAIsReturned ==
    (GemsReturned /\ ScenarioE) => GemsRetIDs = {"X"}

\* C21 as amended: in Scenario E both items are eligible (0.9 > 0.15 and
\* 0.4 > 0.25); GetHiddenGems returns A first and, when limit is 2 or more,
\* B after it.
C21_AThenB ==
    (GemsReturned /\ ScenarioE) =>
        GemsRet = IF gems.limit = 1 THEN <<GemRow("X")>>
                  ELSE <<GemRow("X"), GemRow("Y")>>

C21_Witness ==
    /\ GemsReturned /\ ScenarioE /\ gems.limit = 10
    /\ Len(GemsRet) = 2 /\ GemsRet[2].ID = "Y"

\* ----------------------------------------------- the judge adapter on its own
\* Candidate lists handed to RerankByVibe: distinct media, in any order.
JudgeCandidateLists ==
    {[i \in 1..Len(p) |-> [Media |-> [ID |-> p[i]], VibeScore |-> 0]] :
        p \in UNION {Perms(S) : S \in SUBSET JudgeIds}}

\* llm.go RerankByVibe, called directly.
JudgeCall ==
    /\ judgeCall = NoCall
    /\ \E cands \in JudgeCandidateLists,
          answer \in Answers(SeqsUpTo(Verdicts, MaxJudgeVerdicts)) :
          judgeCall' = [op |-> "RerankByVibe", candidates |-> cands,
                        answer |-> answer, ret |-> RerankByVibeOn(cands, answer)]
    /\ UNCHANGED <<store, request, ixCall, similar, media, gems, goroutines, scraper, mentions,
                   embeddings, tasks>>

\* The caller drops the return value.
JudgeForget ==
    /\ judgeCall # NoCall
    /\ judgeCall' = NoCall
    /\ UNCHANGED <<store, request, ixCall, similar, media, gems, goroutines, scraper, mentions,
                   embeddings, tasks>>

NextJudge == JudgeCall \/ JudgeForget

SpecJudge == Init /\ [][NextJudge]_vars

JudgeReturnedOk == judgeCall.op = "RerankByVibe" /\ ~judgeCall.ret.err
JudgeResults == judgeCall.ret.results

\* C22: every successful return of RerankByVibe holds at most 3 verdicts and
\* every verdict names one of the input candidates, whatever the language
\* model answered.
C22_VerdictsBoundedAndKnown ==
    JudgeReturnedOk =>
        /\ Len(JudgeResults) <= 3
        /\ \A i \in 1..Len(JudgeResults) :
              JudgeResults[i].MediaID \in MediaIDs(judgeCall.candidates)

\* C23: when the language model answers with text that does not parse,
\* RerankByVibe returns without error the first min(3, number of candidates)
\* candidates in their order, ranked 1, 2, 3, each explained from that
\* candidate's own vibe profile.
C23_UnparsableGivesFirstThree ==
    (judgeCall.op = "RerankByVibe" /\ judgeCall.answer.kind = "unparsable"
        /\ judgeCall.candidates # <<>>) =>
        /\ ~judgeCall.ret.err
        /\ Len(JudgeResults) = Min(3, Len(judgeCall.candidates))
        /\ \A i \in 1..Len(JudgeResults) :
              /\ JudgeResults[i].MediaID = judgeCall.candidates[i].Media.ID
              /\ JudgeResults[i].Rank = i
              /\ JudgeResults[i].Explanation =
                    BasedOn(judgeCall.candidates[i].Media.ID)

C23_Witness ==
    /\ judgeCall.op = "RerankByVibe" /\ judgeCall.answer.kind = "unparsable"
    /\ Len(judgeCall.candidates) = 4 /\ Len(JudgeResults) = 3
    /\ JudgeResults[3].MediaID = judgeCall.candidates[3].Media.ID

\* ------------------------------------------- seen list against the requests
\* A database that already holds three media with their embeddings and
\* scores when the service is built and LoadEmbeddings has run.
SeededMedia ==
    [id \in Ids |-> CASE id = "X" -> [quality_score |-> 9, popularity_score |-> 3]
                      [] id = "Y" -> [quality_score |-> 4, popularity_score |-> 5]
                      [] id = "Z" -> [quality_score |-> 9, popularity_score |-> 0]]

InitSeen ==
    /\ vectors = ScenarioIndex
    /\ media = SeededMedia
    /\ seen = {}
    /\ llmClient \in BOOLEAN
    /\ pc = "idle"
    /\ config = NoConfig
    /\ queryEmbedding = NoVector
    /\ seenIDs = {}
    /\ candidates = <<>>
    /\ rerankCandidates = <<>>
    /\ reranked = NoJudge
    /\ result = NoResult
    /\ calls = {}
    /\ faults = {}
    /\ unresolvedIDs = {}
    /\ ixCall = NoCall
    /\ similar = NoCall
    /\ gems = NoCall
    /\ goroutines = [g \in Goroutines |-> [at |-> "idle"]]
    /\ judgeCall = NoCall
    /\ scraper = [running |-> FALSE, stopCh |-> 0, closed |-> {}, workers |-> <<>>]
    /\ mentions = {}
    /\ embeddings = [id \in {} |-> NoVector]
    /\ tasks = [t \in Tasks |-> NoTask]

NextSeen ==
    \/ MarkAsSeen
    \/ DeleteSeen
    \/ SearchStart
    \/ SearchEmbed
    \/ SearchSeen
    \/ SearchVectors
    \/ SearchHydrate
    \/ SearchRank
    \/ SearchReturn
    \/ GetSimilarToMedia
    \/ SimilarReturn
    \/ GetHiddenGems
    \/ GemsReturn

SpecSeen == InitSeen /\ [][NextSeen]_vars

Unseen == (DOMAIN vectors) \ seen

\* C24: a request that starts after a media was marked seen excludes it, and
\* one that starts after the seen entry was deleted may return it again: the
\* seen ids a Search works with are the rows stored when it reads them, no
\* Search, GetSimilarToMedia or GetHiddenGems returns a media that is stored
\* as seen, and none leaves out an unseen media that fits within its limit.
C24_SeenIsReadPerRequest ==
    /\ "GetSeenMediaIDs" \in calls \ faults => seenIDs = seen
    /\ "VectorStore.Search" \in calls =>
          /\ CandidateIDs(candidates) \cap seen = {}
          /\ Cardinality(Unseen) <= config.TopK => CandidateIDs(candidates) = Unseen
    /\ Returned => RecIDs \cap seen = {}
    /\ SimilarReturned =>
          /\ SimilarRecIDs \cap seen = {}
          /\ Cardinality(Unseen \ {similar.mediaID}) <= 2 * similar.limit =>
                CandidateIDs(similar.candidates) = Unseen \ {similar.mediaID}
    /\ GemsReturned =>
          /\ GemsRetIDs \cap seen = {}
          /\ Cardinality(GemsChoice) <= gems.limit => GemsRetIDs = GemsChoice

C24_Witness ==
    /\ Returned /\ seen = {"Y"} /\ seenIDs = {"Y"}
    /\ config.TopK = 20 /\ unresolvedIDs = {} /\ ~reranked.called
    /\ RecIDs = {"X", "Z"}

\* ------------------------------------------------- RedditScraper Start/Stop
\* Channels are numbered by the Start call that made them (0 is nil); worker
\* k is the goroutine launched by the k-th such call.
notScraper == <<store, request, ixCall, similar, media, gems, goroutines, judgeCall, mentions,
                embeddings, tasks>>

\* scraper.go Start, lines 82-109: under the mutex, return if running, else
\* set running, make a new stopCh and launch the worker, which first scrapes.
Start ==
    /\ ~scraper.running
    /\ Len(scraper.workers) < MaxStarts
    /\ scraper' = [scraper EXCEPT
                      !.running = TRUE,
                      !.stopCh = Len(scraper.workers) + 1,
                      !.workers = Append(@, [at |-> "scrapeAll"])]
    /\ UNCHANGED notScraper

\* scraper.go Stop, lines 113-120: under the mutex, close stopCh and clear
\* running if running.
Stop ==
    /\ scraper' = IF scraper.running
                  THEN [scraper EXCEPT !.closed = @ \cup {scraper.stopCh},
                                       !.running = FALSE]
                  ELSE scraper
    /\ UNCHANGED notScraper

\* scraper.go Start, lines 97 and 102: scrapeAll returns; the worker reaches
\* the select.
WorkerScraped(w) ==
    /\ w <= Len(scraper.workers)
    /\ scraper.workers[w].at = "scrapeAll"
    /\ scraper' = [scraper EXCEPT !.workers[w].at = "select"]
    /\ UNCHANGED notScraper

\* scraper.go Start, lines 100-102: the ticker case is taken.
WorkerTick(w) ==
    /\ w <= Len(scraper.workers)
    /\ scraper.workers[w].at = "select"
    /\ scraper' = [scraper EXCEPT !.workers[w].at = "scrapeAll"]
    /\ UNCHANGED notScraper

\* scraper.go Start, lines 103-104: case <-s.stopCh reads the field s.stopCh
\* when the select is entered; the case is taken when that channel is closed.
WorkerStopped(w) ==
    /\ w <= Len(scraper.workers)
    /\ scraper.workers[w].at = "select"
    /\ scraper.stopCh \in scraper.closed
    /\ scraper' = [scraper EXCEPT !.workers[w].at = "exited"]
    /\ UNCHANGED notScraper

NextScraper ==
    \/ Start
    \/ Stop
    \/ \E w \in 1..MaxStarts :
          \/ WorkerScraped(w)
          \/ WorkerTick(w)
          \/ WorkerStopped(w)

SpecScraper == Init /\ [][NextScraper]_vars

\* C27: at most one worker goes on scraping: a worker started before a Stop
\* call (its own channel is closed) finds its stop case ready whenever it is
\* at the select, also when Start was called again in between, so that it
\* exits and leaves the worker of the latest Start alone.
C27_StoppedWorkerExits ==
    \A w \in 1..Len(scraper.workers) :
        (scraper.workers[w].at = "select" /\ w \in scraper.closed) =>
            scraper.stopCh \in scraper.closed

\* ------------------------------------------------ scraping: processMentions
\* Media rows as IngestMedia creates them: both scores 0.
IngestedMedia == [id \in Ids |-> [quality_score |-> 0, popularity_score |-> 0]]

InitMentions ==
    /\ vectors = [id \in {} |-> NoVector]
    /\ media = IngestedMedia
    /\ seen = {}
    /\ llmClient = FALSE
    /\ pc = "idle"
    /\ config = NoConfig
    /\ queryEmbedding = NoVector
    /\ seenIDs = {}
    /\ candidates = <<>>
    /\ rerankCandidates = <<>>
    /\ reranked = NoJudge
    /\ result = NoResult
    /\ calls = {}
    /\ faults = {}
    /\ unresolvedIDs = {}
    /\ ixCall = NoCall
    /\ similar = NoCall
    /\ gems = NoCall
    /\ goroutines = [g \in Goroutines |-> [at |-> "idle"]]
    /\ judgeCall = NoCall
    /\ scraper = [running |-> FALSE, stopCh |-> 0, closed |-> {}, workers |-> <<>>]
    /\ mentions = {}
    /\ embeddings = [id \in {} |-> NoVector]
    /\ tasks = [t \in Tasks |-> NoTask]

\* scraper.go calculateQualityBoost: the boost of a thread, in tenths (a
\* hidden_gem thread, a quality_discussion thread).
QualityBoost(thread) == IF thread = "t1" THEN 5 ELSE 3

\* database.go CreateRedditMention: INSERT OR IGNORE under
\* UNIQUE(thread_id, media_id).
CreateRedditMention(rows, thread, id, boost) ==
    IF \E r \in rows : r.thread_id = thread /\ r.media_id = id
    THEN rows
    ELSE rows \cup {[thread_id |-> thread, media_id |-> id, quality_boost |-> boost]}

\* scraper.go processMentions, lines 232-252: for every mentioned title with
\* a media row, record the mention and add the boost to quality_score.
RECURSIVE MentionLoop(_, _, _, _)
MentionLoop(rows, m, thread, titles) ==
    IF titles = <<>> THEN [rows |-> rows, media |-> m]
    ELSE LET before == MentionLoop(rows, m, thread,
                                   SubSeq(titles, 1, Len(titles) - 1))
             id == titles[Len(titles)]
         IN IF id \notin DOMAIN before.media THEN before
            ELSE [rows |-> CreateRedditMention(before.rows, thread, id,
                                               QualityBoost(thread)),
                  media |-> [before.media EXCEPT
                                ![id].quality_score = @ + QualityBoost(thread)]]

\* scraper.go scrapeSubreddit, lines 166-202, for one thread of the listing:
\* CreateRedditThread (INSERT OR IGNORE, no error for a thread already
\* stored), then processMentions.
ProcessMentions ==
    /\ \E thread \in Threads, titles \in SeqsUpTo(Ids, MaxMentions) :
          LET after == MentionLoop(mentions, media, thread, titles)
          IN /\ \A id \in Ids : after.media[id].quality_score <= MaxQuality
             /\ mentions' = after.rows
             /\ media' = after.media
    /\ UNCHANGED <<store, request, ixCall, similar, gems, goroutines, judgeCall,
                   scraper, embeddings, tasks>>

NextMentions == ProcessMentions

SpecMentions == InitMentions /\ [][NextMentions]_vars

RECURSIVE SumBoosts(_)
SumBoosts(rows) ==
    IF rows = {} THEN 0
    ELSE LET r == CHOOSE x \in rows : TRUE
         IN r.quality_boost + SumBoosts(rows \ {r})

\* C28: a media's quality_score is raised once per (thread, media) mention:
\* after any sequence of scrapes, repeated scrapes of one thread included,
\* the total increase of quality_score equals the sum of quality_boost over
\* the mention rows recorded for that media.
C28_BoostOncePerMention ==
    \A id \in DOMAIN media :
        media[id].quality_score =
            IngestedMedia[id].quality_score
                + SumBoosts({r \in mentions : r.media_id = id})

\* ------------------------------------- IngestMedia and RefreshEmbedding
notIngest == <<seen, llmClient, request, ixCall, similar, gems, goroutines,
               judgeCall, scraper, mentions>>

\* The call of task t has returned: err tells whether it returned an error.
Done(op, id, err) == [at |-> "done", op |-> op, id |-> id, err |-> err]

\* scraper.go IngestMedia, lines 514-521: GetMediaByTitle fails, or finds the
\* record and returns it, or finds nothing and the call goes on.
IngestMedia(t) ==
    /\ tasks[t].at = "idle"
    /\ \E id \in IngestIds, ok \in BOOLEAN :
          tasks' = [tasks EXCEPT ![t] =
                       IF ~ok THEN Done("ingest", id, TRUE)
                       ELSE IF id \in DOMAIN media
                            THEN Done("ingest", id, FALSE)
                            ELSE [at |-> "create", op |-> "ingest", id |-> id]]
    /\ UNCHANGED <<vectors, media, embeddings, notIngest>>

\* scraper.go IngestMedia, lines 523-541: GenerateVibeProfile, then
\* CreateMedia, which also fails on a row of that id (primary key).
IngestCreate(t) ==
    /\ tasks[t].at = "create"
    /\ \E ok \in BOOLEAN :
          LET id == tasks[t].id
          IN IF ~ok \/ id \in DOMAIN media
             THEN /\ tasks' = [tasks EXCEPT ![t] = Done("ingest", id, TRUE)]
                  /\ UNCHANGED media
             ELSE /\ media' = [m \in DOMAIN media \cup {id} |->
                                  IF m = id THEN IngestedMedia[id] ELSE media[m]]
                  /\ tasks' = [tasks EXCEPT ![t] =
                                  [at |-> "embed", op |-> "ingest", id |-> id]]
    /\ UNCHANGED <<vectors, embeddings, notIngest>>

\* scraper.go RefreshEmbedding, lines 795-816: GetMedia, GenerateVibeProfile
\* and the UPDATE of vibe_profile; any of them failing, or no such media,
\* returns an error.
RefreshEmbedding(t) ==
    /\ tasks[t].at = "idle"
    /\ \E id \in IngestIds, ok \in BOOLEAN :
          tasks' = [tasks EXCEPT ![t] =
                       IF ~ok \/ id \notin DOMAIN media
                       THEN Done("refresh", id, TRUE)
                       ELSE [at |-> "embed", op |-> "refresh", id |-> id]]
    /\ UNCHANGED <<vectors, media, embeddings, notIngest>>

\* scraper.go IngestMedia, lines 544-547, and RefreshEmbedding, lines 819-822:
\* embedder.Embed of the vibe profile just generated.
TaskEmbed(t) ==
    /\ tasks[t].at = "embed"
    /\ \/ tasks' = [tasks EXCEPT ![t] = Done(tasks[t].op, tasks[t].id, TRUE)]
       \/ \E v \in IngestVecs :
             tasks' = [tasks EXCEPT ![t] = [at |-> "store", op |-> tasks[t].op,
                                            id |-> tasks[t].id, embedding |-> v]]
    /\ UNCHANGED <<vectors, media, embeddings, notIngest>>

\* database.go StoreEmbedding: INSERT OR REPLACE of the row of media_id.
StoreEmbedding(e, id, v) ==
    [m \in DOMAIN e \cup {id} |-> IF m = id THEN v ELSE e[m]]

\* scraper.go IngestMedia, lines 549-551, and RefreshEmbedding, lines 824-826:
\* db.StoreEmbedding.
TaskStore(t) ==
    /\ tasks[t].at = "store"
    /\ \/ /\ tasks' = [tasks EXCEPT ![t] = Done(tasks[t].op, tasks[t].id, TRUE)]
          /\ UNCHANGED embeddings
       \/ /\ embeddings' = StoreEmbedding(embeddings, tasks[t].id,
                                          tasks[t].embedding)
          /\ tasks' = [tasks EXCEPT ![t].at = "add"]
    /\ UNCHANGED <<vectors, media, notIngest>>

\* scraper.go IngestMedia, lines 553-556, and RefreshEmbedding, lines 828-831:
\* vectorStore.Add, then the call returns without error.
TaskAdd(t) ==
    /\ tasks[t].at = "add"
    /\ vectors' = VectorStoreAdd(vectors, tasks[t].id, tasks[t].embedding)
    /\ tasks' = [tasks EXCEPT ![t] = Done(tasks[t].op, tasks[t].id, FALSE)]
    /\ UNCHANGED <<media, embeddings, notIngest>>

\* The caller takes the result; the task may call again.
TaskReturn(t) ==
    /\ tasks[t].at = "done"
    /\ tasks' = [tasks EXCEPT ![t] = NoTask]
    /\ UNCHANGED <<vectors, media, embeddings, notIngest>>

NextIngest ==
    \E t \in Tasks :
        \/ IngestMedia(t)
        \/ IngestCreate(t)
        \/ RefreshEmbedding(t)
        \/ TaskEmbed(t)
        \/ TaskStore(t)
        \/ TaskAdd(t)
        \/ TaskReturn(t)

SpecIngest == Init /\ [][NextIngest]_vars

\* No IngestMedia or RefreshEmbedding call is under way.
Completed == \A t \in Tasks : tasks[t].at \in {"idle", "done"}

\* C29: once the IngestMedia calls made so far have returned, failures of the
\* embedding and storage steps included, every media record has a persisted
\* embedding and an entry in the vector index; so a call that returned an
\* error left no record behind and a call that returned a record returned
\* one the index holds.
C29_EveryRecordIsIndexed ==
    Completed =>
        /\ \A id \in DOMAIN media :
              id \in DOMAIN embeddings /\ id \in DOMAIN vectors
        /\ \A t \in Tasks :
              (tasks[t].at = "done" /\ tasks[t].op = "ingest" /\ ~tasks[t].err)
                  => tasks[t].id \in DOMAIN vectors

\* C30: once every concurrent RefreshEmbedding and IngestMedia call has
\* returned, the vector the index holds for a media id is the embedding last
\* persisted for that id.
C30_IndexEqualsPersisted ==
    Completed =>
        \A id \in DOMAIN vectors :
            id \in DOMAIN embeddings /\ vectors[id] = embeddings[id]

====
